---- MODULE Spec2Model ----
(***************************************************************************)
(* A model of conjugate_gradient_rpi.py: RPI_interaction, forward and      *)
(* run_CG.                                                                 *)
(*                                                                         *)
(* Tensors are sequences: a stack is a sequence of 2-D arrays, a 2-D array *)
(* a sequence of rows.  Every element is an exact rational <<n, d>> in     *)
(* lowest terms with d > 0, or one of the three IEEE specials, written     *)
(* with d = 0: <<0,0>> is NaN, <<1,0>> is +Inf and <<-1,0>> is -Inf.       *)
(* The inputs are complex tensors whose imaginary parts are zero and whose *)
(* spatial axes have length 1 or 2; on such axes the kernel of the         *)
(* orthonormal DFT is +1/-1, so every intermediate value stays on the real *)
(* axis and the model tracks the real parts exactly.                       *)
(***************************************************************************)
EXTENDS Integers, Sequences, FiniteSets, TLC

\* ------------------------------------------------------------ bounds
\* Largest n_iters drawn.
MaxIters == 3
\* Largest clear_every drawn.
MaxClear == 2
\* Largest axis length drawn for the padding arithmetic alone.
MaxAxis == 5

\* ------------------------------------------------------------ evaluation
\* F applied to the values of its arguments: each argument is evaluated once,
\* as Python evaluates the arguments of a call before the call.
Strict1(F(_), x) == CHOOSE r \in {F(a) : a \in {x}} : TRUE
Strict2(F(_, _), x, y) == CHOOSE r \in {F(a, b) : a \in {x}, b \in {y}} : TRUE
Strict3(F(_, _, _), x, y, z) ==
    CHOOSE r \in {F(a, b, c) : a \in {x}, b \in {y}, c \in {z}} : TRUE

\* A function on 1..n as a sequence value.
Tup(f) == f \o <<>>

\* ------------------------------------------------------------ scalars
IAbs(n) == IF n < 0 THEN -n ELSE n

ISign(n) == IF n < 0 THEN -1 ELSE IF n > 0 THEN 1 ELSE 0

RECURSIVE GCD(_, _)
GCD(a, b) == IF b = 0 THEN a ELSE GCD(b, a % b)

\* The value n/d for d >= 0, in lowest terms; d = 0 gives a special.
Norm(n, d) ==
    Strict2(LAMBDA a, b :
                IF b = 0 THEN <<ISign(a), 0>>
                ELSE Strict1(LAMBDA g : <<a \div g, b \div g>>, GCD(IAbs(a), b)),
            n, d)

Zero == <<0, 1>>
One == <<1, 1>>
Two == <<2, 1>>
NaN == <<0, 0>>

IsNaN(x) == x = NaN
IsInf(x) == x[2] = 0 /\ x[1] # 0
IsFinite(x) == x[2] > 0
IsZero(x) == x = Zero

\* IEEE addition: Inf + (-Inf) and anything with NaN are NaN.
FAdd(x, y) ==
    Strict2(LAMBDA a, b :
                IF IsNaN(a) \/ IsNaN(b) THEN NaN
                ELSE IF IsInf(a) /\ IsInf(b) THEN (IF a = b THEN a ELSE NaN)
                ELSE IF IsInf(a) THEN a
                ELSE IF IsInf(b) THEN b
                ELSE Strict1(LAMBDA g : Norm(a[1] * (b[2] \div g) + b[1] * (a[2] \div g),
                                             a[2] * (b[2] \div g)),
                             GCD(a[2], b[2])),
            x, y)

FNeg(x) == Strict1(LAMBDA a : <<-a[1], a[2]>>, x)

FSub(x, y) == FAdd(x, FNeg(y))

\* IEEE multiplication: Inf * 0 is NaN.  The factors are cancelled crosswise
\* before they are multiplied.
FMul(x, y) ==
    Strict2(LAMBDA a, b :
                IF a[2] = 0 \/ b[2] = 0 THEN Norm(a[1] * b[1], 0)
                ELSE Strict2(LAMBDA g1, g2 : Norm((a[1] \div g1) * (b[1] \div g2),
                                                  (a[2] \div g2) * (b[2] \div g1)),
                             GCD(IAbs(a[1]), b[2]), GCD(IAbs(b[1]), a[2])),
            x, y)

\* IEEE division.  Every divisor in the program is a magnitude or a sum of
\* squares, so a zero divisor is +0: x/0 is Inf with the sign of x, 0/0 is NaN.
FDiv(x, y) ==
    Strict2(LAMBDA a, b :
                IF IsNaN(a) \/ IsNaN(b) THEN NaN
                ELSE IF IsZero(b) THEN <<ISign(a[1]), 0>>
                ELSE IF IsInf(b) THEN (IF IsInf(a) THEN NaN ELSE Zero)
                ELSE FMul(a, <<b[2] * ISign(b[1]), IAbs(b[1])>>),
            x, y)

FAbs(x) == Strict1(LAMBDA a : <<IAbs(a[1]), a[2]>>, x)

\* torch.sgn of a complex number: 0 at 0, otherwise z / |z|.
FSgn(x) == Strict1(LAMBDA a : IF IsZero(a) THEN Zero ELSE FDiv(a, FAbs(a)), x)

\* Largest integer root tried by FSqrt.
MaxRoot == 4

\* t.sqrt on the intensities drawn (perfect squares); NaN below zero.
FSqrt(x) ==
    Strict1(LAMBDA a :
                IF IsNaN(a) \/ a[1] < 0 THEN NaN
                ELSE IF IsInf(a) THEN a
                ELSE <<CHOOSE r \in 0..MaxRoot : r * r * a[2] = a[1], 1>>,
            x)

\* ------------------------------------------------------------ arrays
Rows(x) == Len(x)
Cols(x) == Len(x[1])

Map1(Op(_), x) ==
    Strict1(LAMBDA a : Tup([r \in 1..Rows(a) |-> Tup([c \in 1..Cols(a) |-> Op(a[r][c])])]),
            x)

\* Elementwise binary operation on two arrays of one shape.
Map2(Op(_, _), x, y) ==
    Strict2(LAMBDA a, b :
                Tup([r \in 1..Rows(a) |-> Tup([c \in 1..Cols(a) |-> Op(a[r][c], b[r][c])])]),
            x, y)

\* The sum of s[k], s[k+1], ...
RECURSIVE SumFrom(_, _)
SumFrom(s, k) == IF k > Len(s) THEN Zero ELSE FAdd(s[k], SumFrom(s, k + 1))

SumSeq(s) == Strict1(LAMBDA a : SumFrom(a, 1), s)

\* t.sum(x, dim=(-1,-2)) of one stack element.
SumAll(x) == Strict1(LAMBDA a : SumSeq(Tup([r \in 1..Rows(a) |-> SumSeq(a[r])])), x)

\* t.fft.fft2(x, norm='ortho') over the last two axes, for a square array of
\* side 1 or 2, where the kernel exp(-2 pi i k n / N) is (-1)^(k n) and the
\* orthonormal factor 1/sqrt(N*N) is 1/N.  On these sides ifft2 is the same map.
Kernel(k, n) == IF (k * n) % 2 = 0 THEN One ELSE <<-1, 1>>

fft2(x) ==
    Strict1(LAMBDA v :
        Tup([k2 \in 1..Rows(v) |-> Tup([k1 \in 1..Rows(v) |->
            FDiv(SumAll(Tup([a \in 1..Rows(v) |-> Tup([b \in 1..Rows(v) |->
                     FMul(v[a][b], FMul(Kernel(k2 - 1, a - 1), Kernel(k1 - 1, b - 1)))])])),
                 <<Rows(v), 1>>)])]),
        x)

ifft2(x) == fft2(x)

\* torch.roll by s2 rows and s1 columns.
Roll(x, s2, s1) ==
    Strict1(LAMBDA v :
        Tup([r \in 1..Rows(v) |-> Tup([c \in 1..Cols(v) |->
            v[((r - 1 - s2 + 2 * Rows(v)) % Rows(v)) + 1]
             [((c - 1 - s1 + 2 * Cols(v)) % Cols(v)) + 1]])]),
        x)

\* t.fft.fftshift(x, dim=(-1,-2)): roll each axis by n // 2.
fftshift(x) == Strict1(LAMBDA v : Roll(v, Rows(v) \div 2, Cols(v) \div 2), x)

\* t.fft.ifftshift(x, dim=(-1,-2)): roll each axis by -(n // 2).
ifftshift(x) == Strict1(LAMBDA v : Roll(v, -(Rows(v) \div 2), -(Cols(v) \div 2)), x)

\* t.nn.functional.pad(x, (l1, r1, l2, r2)) with the constant `fill`: the
\* last axis gets l1 and r1, the one before it l2 and r2; a negative pad crops.
Pad(x, l1, r1, l2, r2, fill) ==
    Strict1(LAMBDA v :
        Tup([r \in 1..(Rows(v) + l2 + r2) |-> Tup([c \in 1..(Cols(v) + l1 + r1) |->
            IF (r - l2) \in 1..Rows(v) /\ (c - l1) \in 1..Cols(v)
            THEN v[r - l2][c - l1] ELSE fill])]),
        x)

\* A left pad that halves the difference of the sizes.
PadLeft_HalfDifference(P, O) == (P - O) \div 2

\* The left pad of one axis (lines 39 and 41).
PadLeft(P, O) == (P \div 2) - (O \div 2)

\* The right pad of one axis (lines 40 and 42).
PadRight(P, O) == P - O - PadLeft(P, O)

\* RPI_interaction for one stack element.
RPI_interaction(probe, obj) ==
    Strict2(LAMBDA p, o :
        Map2(FMul, p,
             ifft2(ifftshift(Pad(fftshift(fft2(o)),
                                 PadLeft(Cols(p), Cols(o)), PadRight(Cols(p), Cols(o)),
                                 PadLeft(Rows(p), Rows(o)), PadRight(Rows(p), Rows(o)),
                                 Zero)))),
        probe, obj)

\* forward for one stack element.
forward1(obj, probe) == fft2(RPI_interaction(probe, obj))

\* forward: the transforms act on the last two axes of every stack element.
forward(obj, probe) ==
    Strict2(LAMBDA o, p : Tup([k \in 1..Len(o) |-> forward1(o[k], p)]), obj, probe)

\* ------------------------------------------------------------ stacks
\* Python's None.
None == <<>>

\* Broadcasting along the leading (batch) axis.
Broadcastable(a, b) == Len(a) = Len(b) \/ Len(a) = 1 \/ Len(b) = 1
Bsz(a, b) == IF Len(a) >= Len(b) THEN Len(a) ELSE Len(b)
Pick(a, k) == IF Len(a) = 1 THEN a[1] ELSE a[k]

BMap1(Op(_), x) == Strict1(LAMBDA a : Tup([k \in 1..Len(a) |-> Map1(Op, a[k])]), x)

BMap2(Op(_, _), x, y) ==
    Strict2(LAMBDA a, b : Tup([k \in 1..Bsz(a, b) |-> Map2(Op, Pick(a, k), Pick(b, k))]),
            x, y)

\* mask.unsqueeze(0) as a factor: True is 1 and False is 0, one stack element.
MaskFactor(mask) == <<Map1(LAMBDA b : IF b THEN One ELSE Zero, mask)>>

\* Lines 138-139 and 171-172: multiply by the mask when there is one.
ApplyMask(x, mask) == IF mask = None THEN x ELSE BMap2(FMul, x, MaskFactor(mask))

RECURSIVE SumStackFrom(_, _)
SumStackFrom(g, k) ==
    IF k = Len(g) THEN g[k] ELSE Map2(FAdd, g[k], SumStackFrom(g, k + 1))

\* The backward pass of a broadcast: a gradient is summed down to the batch
\* size n of the tensor it belongs to.
ReduceTo(n, x) ==
    Strict1(LAMBDA g : IF Len(g) = n THEN g ELSE <<SumStackFrom(g, 1)>>, x)

\* The backward pass of RPI_interaction for one stack element: the adjoint of
\* each step of lines 33-50 in reverse order (multiply by conj(probe); ifft2 ->
\* fft2; ifftshift -> fftshift; pad -> the opposite pad; fftshift -> ifftshift;
\* fft2 -> ifft2), giving an array of the object's shape O2 x O1.
RPI_backward(probe, x, O2, O1) ==
    Strict2(LAMBDA p, g :
        ifft2(ifftshift(Pad(fftshift(fft2(Map2(FMul, p, g))),
                            -PadLeft(Cols(p), O1), -PadRight(Cols(p), O1),
                            -PadLeft(Rows(p), O2), -PadRight(Rows(p), O2),
                            Zero))),
        probe, x)

\* Lines 140-142: error = t.sum(error_pattern**2); error.backward(); the
\* gradient left in temp_obj.grad.  Backward of the square and the sum: 2e;
\* of the mask product: times the mask; of the broadcast subtraction: summed
\* to diff's batch size; of t.abs: times sgn(diff); of fft2: ifft2; then
\* RPI_backward.
Backward(obj, probe, diff, error_pattern, mask) ==
    Strict1(LAMBDA d_diff :
                Tup([k \in 1..Len(obj) |->
                        RPI_backward(probe, ifft2(d_diff[k]), Rows(obj[k]), Cols(obj[k]))]),
            BMap2(FMul,
                  ReduceTo(Len(diff),
                           ApplyMask(BMap1(LAMBDA e : FMul(Two, e), error_pattern), mask)),
                  BMap1(FSgn, diff)))

\* Line 136.
Magnitude(diff) == BMap1(FAbs, diff)

\* Lines 137-139.
ErrorPattern(mag_diff, sqrt_pat, mask) == ApplyMask(BMap2(FSub, mag_diff, sqrt_pat), mask)

\* t.sum(t.abs(x)**2, dim=(-1,-2)): one number per stack element.
SumAbsSq(x) ==
    Strict1(LAMBDA a : Tup([k \in 1..Len(a) |->
                               SumAll(Map1(LAMBDA v : FMul(FAbs(v), FAbs(v)), a[k]))]),
            x)

\* Line 145.
IsReset(i, clear_every) == i % clear_every = 0

\* A coefficient from sums over the whole stack: one number for all elements.
FletcherReeves_WholeStack(grad, last_grad) ==
    Strict2(LAMBDA num, den : Tup([k \in 1..Len(grad) |-> FDiv(num, den)]),
            SumSeq(SumAbsSq(grad)), SumSeq(SumAbsSq(last_grad)))

\* Lines 151-153: Fletcher-Reeves.
FletcherReeves(grad, last_grad) ==
    Strict2(LAMBDA grad_sum, last_grad_sum :
                Tup([k \in 1..Len(grad_sum) |-> FDiv(grad_sum[k], last_grad_sum[k])]),
            SumAbsSq(grad), SumAbsSq(last_grad))

\* c[:,None,None] * x: one factor per stack element.
Scale(c, x) ==
    Strict2(LAMBDA a, b :
                Tup([k \in 1..Bsz(a, b) |->
                        Map1(LAMBDA v : FMul(Pick(a, k), v), Pick(b, k))]),
            c, x)

\* A step direction that keeps the history across a reset.
StepDirection_NoClear(i, clear_every, grad, last_grad, last_step_dir) ==
    IF last_grad = None \/ last_step_dir = None THEN grad
    ELSE BMap2(FAdd, grad, Scale(FletcherReeves(grad, last_grad), last_step_dir))

\* Lines 145-161: the step direction.
StepDirection(i, clear_every, grad, last_grad, last_step_dir) ==
    IF IsReset(i, clear_every) THEN grad
    ELSE BMap2(FAdd, grad, Scale(FletcherReeves(grad, last_grad), last_step_dir))

\* Lines 170-172.
StepB(diff, grad_pat, mag_diff, mask) ==
    ApplyMask(BMap2(FDiv, BMap2(FMul, diff, grad_pat), mag_diff), mask)

\* A step size from sums over the whole stack: one number for all elements.
StepSize_WholeStack(A, B) ==
    Strict2(LAMBDA num, den : Tup([k \in 1..Bsz(A, B) |-> FDiv(num, den)]),
            Strict1(LAMBDA AB : FNeg(SumSeq(Tup([k \in 1..Len(AB) |-> SumAll(AB[k])]))),
                    BMap2(FMul, A, B)),
            Strict1(LAMBDA BB : SumSeq(Tup([k \in 1..Len(BB) |-> SumAll(BB[k])])),
                    BMap2(FMul, B, B)))

\* Line 173: one step size per stack element.
StepSize(A, B) ==
    Strict2(LAMBDA num, den :
                Tup([k \in 1..Bsz(num, den) |-> FDiv(Pick(num, k), Pick(den, k))]),
            Strict1(LAMBDA AB : Tup([k \in 1..Len(AB) |-> FNeg(SumAll(AB[k]))]),
                    BMap2(FMul, A, B)),
            Strict1(LAMBDA BB : Tup([k \in 1..Len(BB) |-> SumAll(BB[k])]),
                    BMap2(FMul, B, B)))

\* Line 177 on values.
Updated(obj, alpha, step_dir) == BMap2(FAdd, obj, Scale(alpha, step_dir))

\* One whole iteration of the loop body (lines 131-177) on values.
Iteration(i, clear_every, obj, probe, sqrt_pat, mask, last_grad, last_step_dir) ==
    Strict1(LAMBDA diff :
      Strict1(LAMBDA mag_diff :
        Strict1(LAMBDA error_pattern :
          Strict1(LAMBDA grad :
            Strict1(LAMBDA step_dir :
              Strict1(LAMBDA alpha :
                        [obj |-> Updated(obj, alpha, step_dir),
                         last_grad |-> grad, last_step_dir |-> step_dir],
                      StepSize(error_pattern,
                               StepB(diff, forward(step_dir, probe), mag_diff, mask))),
              StepDirection(i, clear_every, grad, last_grad, last_step_dir)),
            Backward(obj, probe, diff, error_pattern, mask)),
          ErrorPattern(mag_diff, sqrt_pat, mask)),
        Magnitude(diff)),
      forward(obj, probe))

\* t.fft.ifftshift(x, dim=(-1,-2)) on a stack.
Bifftshift(x) == Strict1(LAMBDA a : Tup([k \in 1..Len(a) |-> ifftshift(a[k])]), x)

\* ------------------------------------------------------------ storage
\* mem maps a storage to the tensor it holds.  The caller's four tensors live
\* in "obj", "probe", "pat" and "mask"; a torch call that returns a new tensor
\* adds a storage, an in-place call writes to an existing one.

\* A shift written into the caller's pattern tensor.
ShiftPattern_InPlace(m, p) == [mem |-> [m EXCEPT ![p] = Bifftshift(m[p])], pat |-> p]

\* Line 119: t.fft.ifftshift returns a new tensor, to which the local name
\* pat is rebound.
ShiftPattern(m, p) == [mem |-> ("shifted" :> Bifftshift(m[p])) @@ m, pat |-> "shifted"]

\* Line 127: t.sqrt returns a new tensor.
SqrtPattern(m, p) ==
    [mem |-> ("sqrt" :> BMap1(FSqrt, m[p])) @@ m, sqrt_pat |-> "sqrt"]

\* A temp_obj that owns a copy of the object.
BindTempObj_Copy(m) == [mem |-> ("copy" :> m["obj"]) @@ m, temp_obj |-> "copy"]

\* Lines 122-124: the storage of t.empty_like(obj) is dropped, unread, when
\* temp_obj.data is set to obj; temp_obj.data then views the caller's storage.
BindTempObj(m) == [mem |-> m, temp_obj |-> "obj"]

\* Line 177: temp_obj.data += alpha[:,None,None] * step_dir writes in place
\* to the storage temp_obj.data views.
UpdateObject(m, t, al, sd) == [m EXCEPT ![t] = Updated(@, al, sd)]

\* A loop that runs its body once more.
LoopContinues_OneMore(done, n) == done <= n

\* A loop that tests its bound after the body.
LoopContinues_TestAfter(done, n) == done = 0 \/ done < n

\* Line 129: range(n_iters) yields another index.
LoopContinues(done, n) == done < n

\* ------------------------------------------------------------ inputs
Q(n) == <<n, 1>>

Sides == {1, 2}
BatchSizes == {1, 2}

ObjChoices(s) ==
    IF s = 1 THEN {<<<<Q(1)>>>>, <<<<Q(2)>>>>}
    ELSE {<<<<Q(1), Q(1)>>, <<Q(1), Q(1)>>>>, <<<<Q(1), Q(2)>>, <<Q(0), Q(1)>>>>}

ProbeChoices(s) ==
    IF s = 1 THEN {<<<<Q(1)>>>>}
    ELSE {<<<<Q(1), Q(1)>>, <<Q(1), Q(2)>>>>}

\* Measured intensities, in the detector's centred layout.
PatChoices(s) ==
    IF s = 1 THEN {<<<<Q(1)>>>>, <<<<Q(4)>>>>}
    ELSE {<<<<Q(1), Q(0)>>, <<Q(0), Q(4)>>>>, <<<<Q(1), Q(1)>>, <<Q(1), Q(4)>>>>}

MaskChoices(s) ==
    IF s = 1 THEN {None, <<<<TRUE>>>>, <<<<FALSE>>>>}
    ELSE {None, <<<<TRUE, FALSE>>, <<TRUE, TRUE>>>>, <<<<FALSE, FALSE>>, <<FALSE, FALSE>>>>}

\* Stacks of n different arrays drawn from S.
Stacks(S, n) ==
    IF n = 1 THEN {<<a>> : a \in S}
    ELSE {st \in {<<a, b>> : a \in S, b \in S} : st[1] # st[2]}

\* ------------------------------------------------------------ state
VARIABLES
    n_iters, clear_every,   \* the int arguments of run_CG
    mem,                    \* storage -> tensor
    entry,                  \* mem as it was when run_CG was entered
    pat, sqrt_pat, temp_obj,\* the storage each local name refers to
    pc,                     \* position in run_CG
    it,                     \* indices range(n_iters) has yielded so far
    i,                      \* the loop variable
    diff, mag_diff, error_pattern, grad,
    last_grad, last_step_dir, step_dir,
    grad_pat, A, B, alpha,
    ret,                    \* the storage of the returned tensor
    err,                    \* the line that raised, 0 when none did
    n_forward,              \* calls of forward so far
    n_updates,              \* executions of line 177 so far
    hist,                   \* per iteration: object at its start, grad, step_dir
    runB,                   \* a second call of run_CG, stepped with the first
    pad                     \* the padding arithmetic on its own

vars == <<n_iters, clear_every, mem, entry, pat, sqrt_pat, temp_obj, pc, it, i,
          diff, mag_diff, error_pattern, grad, last_grad, last_step_dir, step_dir,
          grad_pat, A, B, alpha, ret, err, n_forward, n_updates, hist, runB, pad>>

Unbound == "unbound"

NoRun == [active |-> FALSE, elem |-> 0, obj |-> None, pat |-> None,
          sqrt_pat |-> None, last_grad |-> None, last_step_dir |-> None]

NoPad == [stage |-> "off", P2 |-> 0, P1 |-> 0, O2 |-> 0, O1 |-> 0,
          left2 |-> 0, right2 |-> 0, left1 |-> 0, right1 |-> 0, out |-> None]

\* The state on entry to run_CG with the given arguments.
Entry(n, ce, o, pr, pt, mk) ==
    /\ n_iters = n
    /\ clear_every = ce
    /\ mem = [a \in {"obj", "probe", "pat", "mask"} |->
                 CASE a = "obj" -> o [] a = "probe" -> pr [] a = "pat" -> pt
                   [] OTHER -> mk]
    /\ entry = mem
    /\ pat = "pat"
    /\ sqrt_pat = Unbound
    /\ temp_obj = Unbound
    /\ pc = "entry"
    /\ it = 0
    /\ i = -1
    /\ diff = None /\ mag_diff = None /\ error_pattern = None /\ grad = None
    /\ last_grad = None /\ last_step_dir = None /\ step_dir = None
    /\ grad_pat = None /\ A = None /\ B = None /\ alpha = None
    /\ ret = Unbound
    /\ err = 0
    /\ n_forward = 0
    /\ n_updates = 0
    /\ hist = <<>>

\* run_CG is called with any of the drawn arguments: the probe has side P, the
\* object side O, the object stack N elements and the pattern stack Np.
Init ==
    /\ \E P \in Sides, O \in Sides, N \in BatchSizes, Np \in BatchSizes :
       \E n \in 0..MaxIters, ce \in 1..MaxClear,
          o \in Stacks(ObjChoices(O), N), pr \in ProbeChoices(P),
          pt \in Stacks(PatChoices(P), Np), mk \in MaskChoices(P) :
            Entry(n, ce, o, pr, pt, mk)
    /\ runB = NoRun
    /\ pad = NoPad

\* ------------------------------------------------------------ run_CG
\* The second call's share of lines 119-127.
SetupB(r) ==
    IF r.active
    THEN [r EXCEPT !.sqrt_pat = BMap1(FSqrt, Bifftshift(r.pat))]
    ELSE r

\* The second call's share of one loop iteration.
IterateB(r) ==
    IF r.active
    THEN Strict1(LAMBDA x : [r EXCEPT !.obj = x.obj, !.last_grad = x.last_grad,
                                      !.last_step_dir = x.last_step_dir],
                 Iteration(i, clear_every, r.obj, mem["probe"], r.sqrt_pat,
                           mem["mask"], r.last_grad, r.last_step_dir))
    ELSE r

\* Lines 117-127.
Setup ==
    /\ pc = "entry"
    /\ \E s1 \in {ShiftPattern(mem, pat)} :
       \E s2 \in {BindTempObj(s1.mem)} :
       \E s3 \in {SqrtPattern(s2.mem, s1.pat)} :
          /\ mem' = s3.mem
          /\ pat' = s1.pat
          /\ temp_obj' = s2.temp_obj
          /\ sqrt_pat' = s3.sqrt_pat
    /\ pc' = "loop"
    /\ runB' = SetupB(runB)
    /\ UNCHANGED <<n_iters, clear_every, entry, it, i, diff, mag_diff, error_pattern,
                   grad, last_grad, last_step_dir, step_dir, grad_pat, A, B, alpha,
                   ret, err, n_forward, n_updates, hist, pad>>

\* Lines 129-142: the next index, the simulation and the gradient.  Line 137
\* raises when the batch sizes of mag_diff and sqrt_pat do not broadcast.
Simulate ==
    /\ pc = "loop"
    /\ LoopContinues(it, n_iters)
    /\ i' = it
    /\ n_forward' = n_forward + 1
    /\ IF Broadcastable(mem[temp_obj], mem[sqrt_pat])
       THEN /\ diff' = forward(mem[temp_obj], mem["probe"])
            /\ mag_diff' = Magnitude(diff')
            /\ error_pattern' = ErrorPattern(mag_diff', mem[sqrt_pat], mem["mask"])
            /\ grad' = Backward(mem[temp_obj], mem["probe"], diff', error_pattern',
                                mem["mask"])
            /\ pc' = "direction"
            /\ err' = err
       ELSE /\ diff' = forward(mem[temp_obj], mem["probe"])
            /\ mag_diff' = Magnitude(diff')
            /\ pc' = "error"
            /\ err' = 137
            /\ UNCHANGED <<error_pattern, grad>>
    /\ UNCHANGED <<n_iters, clear_every, mem, entry, pat, sqrt_pat, temp_obj, it,
                   last_grad, last_step_dir, step_dir, grad_pat, A, B, alpha, ret,
                   n_updates, hist, runB, pad>>

\* Lines 144-163: the step direction.  Line 152 raises when last_grad is None.
Direction ==
    /\ pc = "direction"
    /\ IF IsReset(i, clear_every) \/ (last_grad # None /\ last_step_dir # None)
       THEN /\ step_dir' = StepDirection(i, clear_every, grad, last_grad, last_step_dir)
            /\ last_grad' = grad
            /\ last_step_dir' = IF IsReset(i, clear_every) THEN None ELSE last_step_dir
            /\ hist' = Append(hist, [obj |-> mem[temp_obj], grad |-> grad,
                                     step_dir |-> step_dir'])
            /\ pc' = "stepsize"
            /\ err' = err
       ELSE /\ pc' = "error"
            /\ err' = 152
            /\ UNCHANGED <<step_dir, last_grad, last_step_dir, hist>>
    /\ UNCHANGED <<n_iters, clear_every, mem, entry, pat, sqrt_pat, temp_obj, it, i,
                   diff, mag_diff, error_pattern, grad, grad_pat, A, B, alpha, ret,
                   n_forward, n_updates, runB, pad>>

\* Lines 166-173: the step size.
Search ==
    /\ pc = "stepsize"
    /\ grad_pat' = forward(step_dir, mem["probe"])
    /\ A' = error_pattern
    /\ B' = StepB(diff, grad_pat', mag_diff, mem["mask"])
    /\ alpha' = StepSize(A', B')
    /\ n_forward' = n_forward + 1
    /\ pc' = "update"
    /\ UNCHANGED <<n_iters, clear_every, mem, entry, pat, sqrt_pat, temp_obj, it, i,
                   diff, mag_diff, error_pattern, grad, last_grad, last_step_dir,
                   step_dir, ret, err, n_updates, hist, runB, pad>>

\* Lines 175-177: the update.  The in-place addition raises when the product
\* alpha[:,None,None] * step_dir has more stack elements than temp_obj.data.
Update ==
    /\ pc = "update"
    /\ last_step_dir' = step_dir
    /\ IF Bsz(alpha, step_dir) = Len(mem[temp_obj])
       THEN /\ mem' = UpdateObject(mem, temp_obj, alpha, step_dir)
            /\ n_updates' = n_updates + 1
            /\ it' = it + 1
            /\ pc' = "loop"
            /\ err' = err
            /\ runB' = IterateB(runB)
       ELSE /\ pc' = "error"
            /\ err' = 177
            /\ UNCHANGED <<mem, n_updates, it, runB>>
    /\ UNCHANGED <<n_iters, clear_every, entry, pat, sqrt_pat, temp_obj, i, diff,
                   mag_diff, error_pattern, grad, last_grad, step_dir, grad_pat, A, B,
                   alpha, ret, n_forward, hist, pad>>

\* Line 179.
Return ==
    /\ pc = "loop"
    /\ ~LoopContinues(it, n_iters)
    /\ ret' = temp_obj
    /\ pc' = "done"
    /\ UNCHANGED <<n_iters, clear_every, mem, entry, pat, sqrt_pat, temp_obj, it, i,
                   diff, mag_diff, error_pattern, grad, last_grad, last_step_dir,
                   step_dir, grad_pat, A, B, alpha, err, n_forward, n_updates, hist,
                   runB, pad>>

Next == Setup \/ Simulate \/ Direction \/ Search \/ Update \/ Return

Spec == Init /\ [][Next]_vars

\* The same runs under the scheduling of a Python call: a step that can be
\* taken is taken.
FairSpec == Init /\ [][Next]_vars /\ WF_vars(Next)

\* ------------------------------------------------------------ two calls
\* Two calls of run_CG with the same n_iters, clear_every, probe and mask, on
\* stacks of two elements that agree on element elem of the object stack and
\* of the pattern stack; the other element of each stack is drawn separately
\* for each call.
InitPair ==
    \E P \in Sides, e \in 1..2 :
    \E O \in 1..P :
    \E n \in 0..MaxIters, ce \in 1..MaxClear,
       o \in Stacks(ObjChoices(O), 2), pr \in ProbeChoices(P),
       pt \in Stacks(PatChoices(P), 2),
       mk \in {m \in MaskChoices(P) : m = None \/ \E r \in 1..P : \E c \in 1..P : m[r][c]},
       oB \in ObjChoices(O), ptB \in PatChoices(P) :
         /\ Entry(n, ce, o, pr, pt, mk)
         /\ runB = [active |-> TRUE, elem |-> e,
                    obj |-> [o EXCEPT ![3 - e] = oB],
                    pat |-> [pt EXCEPT ![3 - e] = ptB],
                    sqrt_pat |-> None, last_grad |-> None, last_step_dir |-> None]
         /\ pad = NoPad

SpecPair == InitPair /\ [][Next]_vars

\* ------------------------------------------------------------ padding alone
\* The array fftshift hands to the padding, each element labelled with the
\* frequency bin <<row, column>> of the fft2 output it came from; <<0, 0>> is
\* the zero-frequency bin.
Bins(O2, O1) == Tup([r \in 1..O2 |-> Tup([c \in 1..O1 |-> <<r - 1, c - 1>>])])

\* The label of a padded element.
Fill == <<-1, -1>>

\* Lines 33-44 of RPI_interaction on the shapes alone: the pads of both axes
\* and the padded array.
PadStage(p) ==
    [p EXCEPT !.stage = "out",
              !.left2 = PadLeft(p.P2, p.O2), !.right2 = PadRight(p.P2, p.O2),
              !.left1 = PadLeft(p.P1, p.O1), !.right1 = PadRight(p.P1, p.O1),
              !.out = Pad(fftshift(Bins(p.O2, p.O1)),
                          PadLeft(p.P1, p.O1), PadRight(p.P1, p.O1),
                          PadLeft(p.P2, p.O2), PadRight(p.P2, p.O2), Fill)]

InitPad ==
    /\ \E P2 \in 1..MaxAxis, P1 \in 1..MaxAxis, O2 \in 1..MaxAxis, O1 \in 1..MaxAxis :
          pad = [NoPad EXCEPT !.stage = "in", !.P2 = P2, !.P1 = P1, !.O2 = O2, !.O1 = O1]
    /\ Entry(0, 1, <<<<<<One>>>>>>, <<<<One>>>>, <<<<<<One>>>>>>, None)
    /\ runB = NoRun

PadStep ==
    /\ pad.stage = "in"
    /\ pad' = PadStage(pad)
    /\ UNCHANGED <<n_iters, clear_every, mem, entry, pat, sqrt_pat, temp_obj, pc, it, i,
                   diff, mag_diff, error_pattern, grad, last_grad, last_step_dir,
                   step_dir, grad_pat, A, B, alpha, ret, err, n_forward, n_updates,
                   hist, runB>>

NextPad == PadStep

SpecPad == InitPad /\ [][NextPad]_vars

\* ------------------------------------------------------------ properties
Elements(x) == {x[k][r][c] : k \in 1..Len(x), r \in 1..Rows(x[1]), c \in 1..Cols(x[1])}

AllFinite(x) == \A v \in Elements(x) : IsFinite(v)

SomeNonZero(x) == \E v \in Elements(x) : ~IsZero(v)

\* The stacks run_CG was entered with.
obj0 == entry["obj"]
probe0 == entry["probe"]
pat0 == entry["pat"]
mask0 == entry["mask"]

ProbeSmaller == Rows(probe0) < Rows(obj0[1]) \/ Cols(probe0) < Cols(obj0[1])

BatchMismatch == Len(obj0) # Len(pat0)

\* C1: in an iteration whose index is a multiple of clear_every, the step
\* direction that goes into the step-size computation (grad_pat) and into the
\* update is the gradient of that iteration itself, with no beta term.
C1_ResetUsesGradient ==
    /\ (pc \in {"stepsize", "update"} /\ i % clear_every = 0) =>
          /\ step_dir = grad
          /\ hist[i + 1].grad = grad
    /\ (pc = "update" /\ i % clear_every = 0) => grad_pat = forward(grad, mem["probe"])
    /\ (pc = "loop" /\ it >= 1 /\ (it - 1) % clear_every = 0) =>
          mem[temp_obj] = Updated(hist[it].obj, alpha, hist[it].grad)

\* A reset after the first iteration, with a history it must not use.
C1_Witness ==
    /\ pc = "update" /\ i >= 1 /\ i % clear_every = 0
    /\ AllFinite(grad) /\ SomeNonZero(grad)
    /\ AllFinite(hist[i].step_dir) /\ SomeNonZero(hist[i].step_dir)

\* C2: a call on stacks of one batch size ends by returning after exactly
\* n_iters iterations, each of which updates the object once; nothing ends
\* the loop earlier.
C2_ExactIterations ==
    /\ [](pc \in {"loop", "done"} => n_updates = it)
    /\ [](pc \in {"direction", "stepsize", "update"} => n_updates = i /\ i = it)
    /\ [](pc = "done" => it = n_iters)
    /\ ((pc = "entry" /\ ~BatchMismatch) ~> (pc = "done" /\ n_updates = n_iters))

C2_Witness ==
    /\ pc = "done" /\ n_iters >= 2 /\ n_updates = n_iters
    /\ Len(hist) = n_iters /\ AllFinite(mem[ret])

\* C3: with n_iters = 0 the call returns the caller's object, holding the
\* values it was entered with, and no simulation, gradient or update happened.
C3_ZeroIterations ==
    (pc = "done" /\ n_iters = 0) =>
        /\ mem[ret] = obj0
        /\ n_forward = 0 /\ n_updates = 0
        /\ diff = None /\ grad = None /\ step_dir = None /\ alpha = None

C3_Witness == pc = "done" /\ n_iters = 0 /\ ProbeSmaller /\ BatchMismatch

\* C4: a probe smaller than the object, or object and pattern stacks of
\* different batch sizes, are rejected before anything is computed: the call
\* never returns normally and never simulates or updates.
C4_RejectedBeforeComputation ==
    (ProbeSmaller \/ BatchMismatch) => (pc # "done" /\ n_forward = 0 /\ n_updates = 0)

\* C5: where sum(B^2) is zero for a stack element, that element's step size
\* is a defined number, and the update writes no NaN or Inf into the object.
C5_ZeroDenominatorDefined ==
    /\ pc = "update" =>
          \A k \in 1..Len(B) :
              IsZero(SumAll(Map2(FMul, B[k], B[k]))) => IsFinite(Pick(alpha, k))
    /\ (pc = "loop" /\ AllFinite(obj0)) => AllFinite(mem[temp_obj])

\* C6: two calls that agree on element elem of the object and pattern stacks
\* (and on n_iters, clear_every, probe and mask) hold the same estimate of
\* that element after every iteration and return the same element.
C6_BatchIndependent ==
    runB.active =>
        /\ pc = "loop" => mem[temp_obj][runB.elem] = runB.obj[runB.elem]
        /\ pc = "done" => mem[ret][runB.elem] = runB.obj[runB.elem]

\* Both calls have run, the shared element took finite steps, and the other
\* element came out differently in the two calls.
C6_Witness ==
    /\ runB.active /\ pc = "done" /\ n_iters >= 2
    /\ mem[ret][runB.elem] # obj0[runB.elem]
    /\ AllFinite(<<mem[ret][runB.elem]>>)
    /\ mem[ret][3 - runB.elem] # runB.obj[3 - runB.elem]

\* C7: on each axis with P >= O both pads are non-negative, left + O + right
\* = P, the padded array has P elements on that axis, and the zero-frequency
\* bin, which fftshift put at index O div 2, is at index P div 2; with P = O
\* both pads are 0.
AxisOK(P, O, left, right, n, zeroAt) ==
    P >= O =>
        /\ left >= 0 /\ right >= 0
        /\ left + O + right = P
        /\ n = P
        /\ zeroAt = {P \div 2}
        /\ P = O => (left = 0 /\ right = 0)

C7_PaddingAligned ==
    pad.stage = "out" =>
        /\ fftshift(Bins(pad.O2, pad.O1))[(pad.O2 \div 2) + 1][(pad.O1 \div 2) + 1] = <<0, 0>>
        /\ AxisOK(pad.P2, pad.O2, pad.left2, pad.right2, Rows(pad.out),
                  {r - 1 : r \in {r \in 1..Rows(pad.out) :
                                     \E c \in 1..Cols(pad.out) : pad.out[r][c][1] = 0}})
        /\ AxisOK(pad.P1, pad.O1, pad.left1, pad.right1, Cols(pad.out),
                  {c - 1 : c \in {c \in 1..Cols(pad.out) :
                                     \E r \in 1..Rows(pad.out) : pad.out[r][c][2] = 0}})

\* An even probe axis over an odd object axis, and an odd one over an even one.
C7_Witness ==
    /\ pad.stage = "out"
    /\ pad.P2 = 4 /\ pad.O2 = 3 /\ pad.P1 = 5 /\ pad.O1 = 2
    /\ pad.left2 = 1 /\ pad.right2 = 0 /\ pad.left1 = 1 /\ pad.right1 = 2

\* C8: the caller's probe, pattern stack and mask hold their entry values in
\* every state; the shifted pattern and its square root are other tensors.
C8_InputsUntouched ==
    /\ mem["probe"] = probe0 /\ mem["pat"] = pat0 /\ mem["mask"] = mask0
    /\ pc # "entry" =>
          /\ {pat, sqrt_pat} \cap {"obj", "probe", "pat", "mask"} = {}
          /\ pat # sqrt_pat
          /\ mem[pat] = Bifftshift(pat0)
          /\ mem[sqrt_pat] = BMap1(FSqrt, Bifftshift(pat0))

\* A masked run that iterated, on a pattern the shift and the root both change.
C8_Witness ==
    /\ pc = "done" /\ n_iters >= 2 /\ mask0 # None
    /\ mem[pat] # pat0 /\ mem[sqrt_pat] # mem[pat]

\* C9: in an iteration whose index is not a multiple of clear_every, the step
\* direction is grad + beta * (step direction of the iteration before), with
\* beta = sum|grad|^2 / sum|gradient of the iteration before|^2 per stack
\* element; last_grad and last_step_dir hold exactly those two tensors when
\* they are read, so they are never None there.
PrevBeta ==
    Tup([k \in 1..Len(grad) |->
            FDiv(SumAbsSq(grad)[k], SumAbsSq(hist[i].grad)[k])])

C10_CallerObjectUpdated ==
    /\ pc # "entry" => temp_obj = "obj"
    /\ (pc = "loop" /\ it >= 1) =>
          mem["obj"] = Updated(hist[it].obj, alpha, step_dir)
    /\ pc = "done" => ret = "obj"

C10_Witness ==
    /\ pc = "done" /\ n_iters >= 1
    /\ mem["obj"] # obj0 /\ AllFinite(mem["obj"])

====
